---------------------------- MODULE Spec2Model ----------------------------
(***************************************************************************)
(* A model of app.py, the customer purchase analysis dashboard: one run of *)
(* the Streamlit script (load_data, preprocessing, the month filter, the   *)
(* empty gate, the aggregations of sections 4 and 5) and its reruns.       *)
(*                                                                         *)
(* A DataFrame is its column labels plus a sequence of rows (records).     *)
(* Money is counted in pence (UnitPrice 2.50 is 250), a CustomerID cell is *)
(* a float counted in tenths (17850.0 is 178500) or NaN.  pandas is the    *)
(* 1.x/2.x line the script was written for: groupby over a Categorical     *)
(* key runs with the default observed=False.                               *)
(***************************************************************************)
EXTENDS Integers, Sequences, FiniteSets, TLC

VARIABLES
    pc,                        \* position of the script run
    error,                     \* exception or st.error that ended the run
    columns,                   \* df.columns: field |-> label as read
    early_lookups,             \* labels looked up before the labels were stripped
    df_raw,                    \* rows returned by load_data (cached)
    df,                        \* rows after section 2
    selected_months,           \* value of the sidebar multiselect
    df_filtered,               \* rows after the month filter
    sidebar_warning,           \* st.sidebar.warning of line 72 shown
    empty_warning,             \* st.warning of line 76 shown
    rendered,                  \* views computed and put on the page in this run
    kpi,                       \* total_sales, total_orders, total_customers, avg_order_value
    monthly_summary,
    daily_sales,
    hourly_sales,
    top_selling_products_qty,
    top_revenue_products,
    fig_country                \* branch taken and the frame handed to px.pie

vars == <<pc, error, columns, early_lookups, df_raw, df, selected_months,
          df_filtered, sidebar_warning, empty_warning, rendered, kpi,
          monthly_summary, daily_sales, hourly_sales,
          top_selling_products_qty, top_revenue_products, fig_country>>

outputs == <<rendered, kpi, monthly_summary, daily_sales, hourly_sales,
             top_selling_products_qty, top_revenue_products, fig_country>>

-----------------------------------------------------------------------------
(* Bounds of the checked inputs. *)

\* Rows of a sheet of the general family.
MaxRows == 2
\* Distinct products of a sheet of the product family.
MaxProducts == 11
\* Countries other than the United Kingdom of a sheet of the country family.
MaxCountries == 12
\* Lines by which the arrival order of a sheet of the product family is rotated.
MaxShift == 2

-----------------------------------------------------------------------------
(* Strings.  TLC has no order on strings: Lexicon lists every Description  *)
(* and Country of the checked inputs in the order Python compares them.    *)

Lexicon ==
    <<"Australia", "Austria", "Bahrain", "Belgium", "Brazil", "Canada",
      "Cyprus", "Denmark", "EIRE", "Finland", "France", "Germany", "Greece",
      "Iceland", "P01", "P02", "P03", "P04", "P05", "P06", "P07", "P08",
      "P09", "P10", "P11", "P12", "P13", "United Kingdom">>

LexPos(s) == CHOOSE i \in 1..Len(Lexicon) : Lexicon[i] = s

\* A label is a sequence of tokens: " " is a whitespace character, any other
\* token is a run of non-whitespace characters.
StripLeft(label) ==
    LET n == Len(label)
        k == CHOOSE i \in 1..(n + 1) :
                 /\ \A j \in 1..(i - 1) : label[j] = " "
                 /\ (i <= n => label[i] # " ")
    IN  SubSeq(label, k, n)

StripRight(label) ==
    LET n == Len(label)
        k == CHOOSE i \in 0..n :
                 /\ \A j \in (i + 1)..n : label[j] = " "
                 /\ (i >= 1 => label[i] # " ")
    IN  SubSeq(label, 1, k)

\* str.strip()
Strip(label) == StripRight(StripLeft(label))

\* df.columns.str.strip()
StripColumns(cols) == [f \in DOMAIN cols |-> Strip(cols[f])]

\* name in df.columns
HasColumn(cols, name) == \E f \in DOMAIN cols : cols[f] = <<name>>

\* df[name], row by row: the field whose label is exactly name
Field(cols, name) == CHOOSE f \in DOMAIN cols : cols[f] = <<name>>

-----------------------------------------------------------------------------
(* Timestamps and the .dt accessors. *)

day_order ==
    <<"Monday", "Tuesday", "Wednesday", "Thursday", "Friday", "Saturday", "Sunday">>

\* Days since 1970-01-01 of a proleptic Gregorian date.
DaysFromCivil(year, month, day) ==
    LET y   == IF month <= 2 THEN year - 1 ELSE year
        era == y \div 400
        yoe == y - era * 400
        mp  == IF month > 2 THEN month - 3 ELSE month + 9
        doy == (153 * mp + 2) \div 5 + day - 1
        doe == yoe * 365 + yoe \div 4 - yoe \div 100 + doy
    IN  era * 146097 + doe - 719468

\* Timestamp.weekday(): Monday is 0 (1970-01-01 was a Thursday).
Weekday(ts) == (DaysFromCivil(ts.year, ts.month, ts.day) + 3) % 7

\* .dt.day_name()
DayName(ts) == day_order[Weekday(ts) + 1]

\* .dt.to_period('M').astype(str): "YYYY-MM".  The label is zero padded, so
\* its string order is the order of year * 100 + month, which stands for it.
YearMonthOf(ts) == ts.year * 100 + ts.month

\* pd.Categorical(values, categories=day_order): a value outside the
\* categories becomes NaN.
AsCategory(name) ==
    IF \E i \in 1..Len(day_order) : day_order[i] = name THEN name ELSE "NaN"

-----------------------------------------------------------------------------
(* Section 2: preprocessing. *)

\* A float cell: NaN, or a value counted in tenths.
NaN == [nan |-> TRUE, tenths |-> 0]

Float(t) == [nan |-> FALSE, tenths |-> t]

\* pd.isna of a float cell
IsNull(v) == v.nan

\* df.dropna(subset=['CustomerID'])
DropNa(cols, rows) ==
    SelectSeq(rows, LAMBDA r : ~IsNull(r[Field(cols, "CustomerID")]))

\* float -> int of astype(int): truncation toward zero
AsInt(v) ==
    IF v.tenths >= 0 THEN v.tenths \div 10 ELSE -((-v.tenths) \div 10)

\* df['CustomerID'] = df['CustomerID'].astype(int)
CoerceCustomerID(cols, rows) ==
    LET f == Field(cols, "CustomerID")
    IN  [i \in 1..Len(rows) |-> [rows[i] EXCEPT ![f] = AsInt(@)]]

\* The filter with >= for the quantity: a line of quantity 0 passes.
IsSaleNonNegative(cols, r) ==
    /\ r[Field(cols, "Quantity")] >= 0
    /\ r[Field(cols, "UnitPrice")] > 0

\* (df['Quantity'] > 0) & (df['UnitPrice'] > 0), for one row
IsSale(cols, r) ==
    /\ r[Field(cols, "Quantity")] > 0
    /\ r[Field(cols, "UnitPrice")] > 0

\* df = df[(df['Quantity'] > 0) & (df['UnitPrice'] > 0)]
PositiveFilter(cols, rows) == SelectSeq(rows, LAMBDA r : IsSale(cols, r))

\* TotalPrice, YearMonth, Month, DayOfWeek, Hour of one row
DeriveRow(cols, r) ==
    LET ts == r[Field(cols, "InvoiceDate")]
    IN  [InvoiceNo   |-> r[Field(cols, "InvoiceNo")],
         Description |-> r[Field(cols, "Description")],
         Quantity    |-> r[Field(cols, "Quantity")],
         InvoiceDate |-> ts,
         UnitPrice   |-> r[Field(cols, "UnitPrice")],
         CustomerID  |-> r[Field(cols, "CustomerID")],
         Country     |-> r[Field(cols, "Country")],
         TotalPrice  |-> r[Field(cols, "Quantity")] * r[Field(cols, "UnitPrice")],
         YearMonth   |-> YearMonthOf(ts),
         Month       |-> ts.month,
         DayOfWeek   |-> AsCategory(DayName(ts)),
         Hour        |-> ts.hour]

Derive(cols, rows) == [i \in 1..Len(rows) |-> DeriveRow(cols, rows[i])]

\* Lines 37-53 as a whole.
Preprocessed(cols, rows) ==
    Derive(cols, PositiveFilter(cols, CoerceCustomerID(cols, DropNa(cols, rows))))

-----------------------------------------------------------------------------
(* Sequences, sorting, groupby, nlargest. *)

Range(s) == {s[i] : i \in DOMAIN s}

\* rows[f].sum()
RECURSIVE SumOf(_, _)
SumOf(rows, f) ==
    IF rows = <<>> THEN 0 ELSE rows[1][f] + SumOf(Tail(rows), f)

\* rows[rows[f] == v]
RowsWhere(rows, f, v) == SelectSeq(rows, LAMBDA r : r[f] = v)

\* rows[f].unique(), as a set
Values(rows, f) == {rows[i][f] : i \in DOMAIN rows}

\* sorted() of a set of integers
RECURSIVE SortInts(_)
SortInts(S) ==
    IF S = {} THEN <<>>
    ELSE LET least == CHOOSE x \in S : \A y \in S : x <= y
         IN  <<least>> \o SortInts(S \ {least})

\* sorted() of a set of strings
RECURSIVE SortStrings(_)
SortStrings(S) ==
    IF S = {} THEN <<>>
    ELSE LET least == CHOOSE x \in S : \A y \in S : LexPos(x) <= LexPos(y)
         IN  <<least>> \o SortStrings(S \ {least})

\* The keys of a groupby with sort=False: in the order of first appearance.
RECURSIVE GroupKeysFirstSeen(_, _)
GroupKeysFirstSeen(rows, f) ==
    IF rows = <<>> THEN <<>>
    ELSE <<rows[1][f]>>
         \o GroupKeysFirstSeen(SelectSeq(Tail(rows), LAMBDA r : r[f] # rows[1][f]), f)

\* The keys of groupby(f) over a string column: sort=True is the default.
GroupKeys(rows, f) == SortStrings(Values(rows, f))

\* groupby(by)[col].sum().reset_index() given the keys: one row per key, in
\* the order of the keys, with the columns by and col.
RECURSIVE GroupSum(_, _, _, _)
GroupSum(rows, keys, by, col) ==
    IF keys = <<>> THEN <<>>
    ELSE <<(by :> keys[1]) @@ (col :> SumOf(RowsWhere(rows, by, keys[1]), col))>>
         \o GroupSum(rows, Tail(keys), by, col)

\* s without its i-th row
Without(s, i) == SubSeq(s, 1, i - 1) \o SubSeq(s, i + 1, Len(s))

\* The row of the largest f, the first of them when several tie.
ArgMaxFirst(s, f) ==
    CHOOSE i \in 1..Len(s) :
        \A j \in 1..Len(s) : s[i][f] > s[j][f] \/ (s[i][f] = s[j][f] /\ i <= j)

\* nlargest(n, f) with keep='first': the n first rows of the stable sort of s
\* by column f, descending.
RECURSIVE NLargest(_, _, _)
NLargest(n, s, f) ==
    IF n = 0 \/ s = <<>> THEN <<>>
    ELSE <<s[ArgMaxFirst(s, f)]>> \o NLargest(n - 1, Without(s, ArgMaxFirst(s, f)), f)

-----------------------------------------------------------------------------
(* Section 3: the sidebar filter and the empty gate. *)

\* sorted(df['Month'].unique()): the options of the multiselect, as a set
MonthOptions(rows) == Values(rows, "Month")

\* The test with the month counted from 0.
IsInZeroBased(r, selected) == (r.Month - 1) \in selected

\* df['Month'].isin(selected), for one row
IsIn(r, selected) == r.Month \in selected

\* The filter without its else branch: no month selected, no row.
MonthFilterNoFallback(rows, selected) ==
    SelectSeq(rows, LAMBDA r : IsIn(r, selected))

\* Lines 68-71: the rows of the selected months; every row when none is selected.
MonthFilter(rows, selected) ==
    IF selected # {}
    THEN SelectSeq(rows, LAMBDA r : IsIn(r, selected))
    ELSE rows

\* Line 72 is reached: the else branch of `if selected_months:`.
FallbackWarning(selected) == selected = {}

\* The gate left open: no frame counts as empty.
NeverEmpty(rows) == FALSE

\* df_filtered.empty
IsEmpty(rows) == Len(rows) = 0

-----------------------------------------------------------------------------
(* Sections 4 and 5: the aggregations. *)

\* nlargest(10) of lines 171 and 184
TopProducts == 10
\* nlargest(11, 'TotalPrice') of line 204
TopCountries == 11

\* Lines 82-85.  avg_order_value is kept as the exact ratio num / den.
KpiOf(rows) ==
    LET total_sales  == SumOf(rows, "TotalPrice")
        total_orders == Cardinality(Values(rows, "InvoiceNo"))
    IN  [total_sales     |-> total_sales,
         total_orders    |-> total_orders,
         total_customers |-> Cardinality(Values(rows, "CustomerID")),
         avg_order_value |-> IF total_orders > 0
                             THEN [num |-> total_sales, den |-> total_orders]
                             ELSE [num |-> 0, den |-> 1]]

\* Lines 103-106: groupby('YearMonth').agg(...).reset_index().sort_values('YearMonth')
MonthlySummary(rows) ==
    LET keys == SortInts(Values(rows, "YearMonth"))
    IN  [k \in 1..Len(keys) |->
            LET g == RowsWhere(rows, "YearMonth", keys[k])
            IN  [YearMonth  |-> keys[k],
                 TotalSales |-> SumOf(g, "TotalPrice"),
                 OrderCount |-> Cardinality(Values(g, "InvoiceNo"))]]

\* The categories a groupby over DayOfWeek makes no group for when it runs
\* with observed=True: those of no row.
ObservedCategories(rows) ==
    SelectSeq(day_order, LAMBDA d : \E i \in DOMAIN rows : rows[i].DayOfWeek = d)

\* The groups of a groupby over the Categorical DayOfWeek, in order: with
\* observed=False every category, used or not.
GroupCategories(rows) == day_order

\* Line 139: groupby('DayOfWeek')['TotalPrice'].sum().reset_index()
DailySales(rows) ==
    LET cats == GroupCategories(rows)
    IN  [k \in 1..Len(cats) |->
            [DayOfWeek  |-> cats[k],
             TotalPrice |-> SumOf(RowsWhere(rows, "DayOfWeek", cats[k]), "TotalPrice")]]

\* The stacked result of a groupby over the observed pairs only.
HourlyGroupedObserved(rows) ==
    [p \in {<<rows[i].DayOfWeek, rows[i].Hour>> : i \in DOMAIN rows} |->
        SumOf(RowsWhere(RowsWhere(rows, "DayOfWeek", p[1]), "Hour", p[2]), "TotalPrice")]

\* Line 151, groupby(['DayOfWeek', 'Hour'])['TotalPrice'].sum(): one entry per
\* category of DayOfWeek and value of Hour in the rows; the sum of no row is 0.
HourlyGrouped(rows) ==
    [p \in Range(GroupCategories(rows)) \X Values(rows, "Hour") |->
        SumOf(RowsWhere(RowsWhere(rows, "DayOfWeek", p[1]), "Hour", p[2]), "TotalPrice")]

\* Line 151, .unstack(fill_value=0): the first level becomes the index (in
\* category order), the second the columns (sorted); a pair the stacked
\* result has no entry for gets fill_value.
Unstack(stacked, fill_value) ==
    LET index == SelectSeq(day_order, LAMBDA d : \E p \in DOMAIN stacked : p[1] = d)
        cols  == SortInts({p[2] : p \in DOMAIN stacked})
    IN  [index   |-> index,
         columns |-> cols,
         values  |-> [d \in Range(index) |-> [h \in Range(cols) |->
                         IF <<d, h>> \in DOMAIN stacked
                         THEN stacked[<<d, h>>]
                         ELSE fill_value]]]

HourlySales(rows) == Unstack(HourlyGrouped(rows), 0)

\* groupby('Description')['Quantity'].sum(), before nlargest
QuantityByProduct(rows) ==
    GroupSum(rows, GroupKeys(rows, "Description"), "Description", "Quantity")

\* Line 171
TopSellingProductsQty(rows) == NLargest(TopProducts, QuantityByProduct(rows), "Quantity")

\* groupby('Description')['TotalPrice'].sum(), before nlargest
RevenueByProduct(rows) ==
    GroupSum(rows, GroupKeys(rows, "Description"), "Description", "TotalPrice")

\* Line 184
TopRevenueProducts(rows) == NLargest(TopProducts, RevenueByProduct(rows), "TotalPrice")

\* Line 201: groupby('Country')['TotalPrice'].sum().reset_index()
CountrySales(rows) ==
    GroupSum(rows, GroupKeys(rows, "Country"), "Country", "TotalPrice")

\* Line 204
CountrySalesTop10(rows) == NLargest(TopCountries, CountrySales(rows), "TotalPrice")

\* Line 207: country_sales[country_sales['Country'] != 'United Kingdom']
CountrySalesOther(rows) ==
    SelectSeq(CountrySales(rows), LAMBDA c : c.Country # "United Kingdom")

\* Lines 205-225: the branch and the frame px.pie gets.
FigCountry(rows) ==
    IF "United Kingdom" \in Values(CountrySalesTop10(rows), "Country")
    THEN [branch |-> "exclude_uk", frame |-> CountrySalesOther(rows)]
    ELSE [branch |-> "top_10",     frame |-> CountrySalesTop10(rows)]

-----------------------------------------------------------------------------
(* The checked inputs: the sheets pd.read_excel may return. *)

\* The columns of Online Retail.xlsx the script reads (StockCode is never read).
Fields ==
    {"InvoiceNo", "Description", "Quantity", "InvoiceDate", "UnitPrice",
     "CustomerID", "Country"}

CleanHeader == [f \in Fields |-> <<f>>]

\* Headers with incidental whitespace around one label.
Headers ==
    {CleanHeader,
     [CleanHeader EXCEPT !["InvoiceDate"] = <<" ", "InvoiceDate">>],
     [CleanHeader EXCEPT !["Quantity"] = <<"Quantity", " ">>]}

\* 2010-12-01 08:00 (Wednesday), 2011-01-05 10:00 (Wednesday), 2011-01-09 10:00 (Sunday)
Dates ==
    {[year |-> 2010, month |-> 12, day |-> 1, hour |-> 8],
     [year |-> 2011, month |-> 1,  day |-> 5, hour |-> 10],
     [year |-> 2011, month |-> 1,  day |-> 9, hour |-> 10]}

\* The general family: up to MaxRows lines, valid or not, in any order.
Lines ==
    [InvoiceNo   : {536365},
     Description : {"P01"},
     Quantity    : {-1, 0, 3},
     InvoiceDate : Dates,
     UnitPrice   : {0, 250},
     CustomerID  : {NaN, Float(178500)},
     Country     : {"Germany"}]

Line(invoice, description, quantity, price, country) ==
    [InvoiceNo   |-> invoice,
     Description |-> description,
     Quantity    |-> quantity,
     InvoiceDate |-> [year |-> 2011, month |-> 1, day |-> 5, hour |-> 10],
     UnitPrice   |-> price,
     CustomerID  |-> Float(178500),
     Country     |-> country]

Products ==
    <<"P01", "P02", "P03", "P04", "P05", "P06", "P07", "P08", "P09", "P10",
      "P11", "P12", "P13">>

\* The product family: one line for each of the first n products, of quantity
\* 2 for the products lo..hi and 1 for the others, arriving in ascending or in
\* descending order of Description rotated by shift lines, and possibly one
\* more line of the first product.
ProductRows(n, lo, hi, ascending, shift, more) ==
    [i \in 1..(n + (IF more THEN 1 ELSE 0)) |->
        IF i > n THEN Line(536365 + i, Products[1], 1, 100, "United Kingdom")
        ELSE LET at == ((i - 1 + shift) % n) + 1
                 p  == IF ascending THEN at ELSE n + 1 - at
             IN  Line(536365 + i, Products[p],
                      IF lo <= p /\ p <= hi THEN 2 ELSE 1, 100, "United Kingdom")]

OtherCountries ==
    <<"Australia", "Austria", "Bahrain", "Belgium", "Brazil", "Canada",
      "Cyprus", "Denmark", "EIRE", "Finland", "France", "Germany", "Greece",
      "Iceland">>

\* The country family: one line for each of the first n other countries, of
\* revenue 2.00 for the countries lo..hi and 1.00 for the others, and one of
\* the United Kingdom unless uk is 0, of revenue uk.
CountryRows(n, lo, hi, uk) ==
    [i \in 1..(n + (IF uk > 0 THEN 1 ELSE 0)) |->
        IF i > n THEN Line(536365 + i, "P01", 1, uk, "United Kingdom")
        ELSE Line(536365 + i, "P01", 1,
                  IF lo <= i /\ i <= hi THEN 200 ELSE 100, OtherCountries[i])]

-----------------------------------------------------------------------------
(* The script run. *)

NoFigure == [branch |-> "none", frame |-> <<>>]

Init ==
    /\ pc = "start"
    /\ error = "none"
    /\ columns = CleanHeader
    /\ early_lookups = {}
    /\ df_raw = <<>>
    /\ df = <<>>
    /\ selected_months = {}
    /\ df_filtered = <<>>
    /\ sidebar_warning = FALSE
    /\ empty_warning = FALSE
    /\ rendered = {}
    /\ kpi = KpiOf(<<>>)
    /\ monthly_summary = <<>>
    /\ daily_sales = <<>>
    /\ hourly_sales = Unstack(<<>>, 0)
    /\ top_selling_products_qty = <<>>
    /\ top_revenue_products = <<>>
    /\ fig_country = NoFigure

\* Line 20: pd.read_excel returns a sheet.
Read(header, rows) ==
    /\ columns' = header
    /\ df_raw' = rows
    /\ pc' = "read"
    /\ UNCHANGED <<error, early_lookups, df, selected_months, df_filtered,
                   sidebar_warning, empty_warning, outputs>>

\* Line 20, a sheet of the general family.
ReadExcel ==
    /\ pc = "start"
    /\ \E header \in Headers, k \in 0..MaxRows :
           \E rows \in [1..k -> Lines] : Read(header, rows)

\* Line 20, a sheet of the product family.
ReadExcelProducts ==
    /\ pc = "start"
    /\ \E header \in Headers, n \in 0..MaxProducts :
           \E lo \in 1..(n + 1), hi \in 0..n, ascending \in BOOLEAN,
              shift \in 0..MaxShift, more \in BOOLEAN :
               /\ more => n > 0
               /\ Read(header, ProductRows(n, lo, hi, ascending, shift, more))

\* Line 20, a sheet of the country family.
ReadExcelCountries ==
    /\ pc = "start"
    /\ \E header \in Headers, n \in 0..MaxCountries :
           \E lo \in 1..(n + 1), hi \in 0..n, uk \in {0, 100, 100000000} :
               Read(header, CountryRows(n, lo, hi, uk))

\* Lines 21-23: the file is missing; st.error, st.stop.
FileNotFound ==
    /\ pc = "start"
    /\ error' = "FileNotFoundError"
    /\ pc' = "stopped"
    /\ UNCHANGED <<columns, early_lookups, df_raw, df, selected_months,
                   df_filtered, sidebar_warning, empty_warning, outputs>>

\* Line 26: df['InvoiceDate'] is looked up (and written back) with the labels
\* as read; the cells are timestamps already and pd.to_datetime keeps them.
ConvertInvoiceDate ==
    /\ pc = "read"
    /\ early_lookups' = early_lookups \cup {"InvoiceDate"}
    /\ IF HasColumn(columns, "InvoiceDate")
       THEN pc' = "converted" /\ error' = error
       ELSE pc' = "crashed" /\ error' = "KeyError"
    /\ UNCHANGED <<columns, df_raw, df, selected_months, df_filtered,
                   sidebar_warning, empty_warning, outputs>>

\* Lines 27-29: the labels are stripped and load_data returns.
StripColumnNames ==
    /\ pc = "converted"
    /\ columns' = StripColumns(columns)
    /\ pc' = "loaded"
    /\ UNCHANGED <<error, early_lookups, df_raw, df, selected_months,
                   df_filtered, sidebar_warning, empty_warning, outputs>>

\* Lines 32-53.
Preprocess ==
    /\ pc = "loaded"
    /\ df' = Preprocessed(columns, df_raw)
    /\ pc' = "sidebar"
    /\ UNCHANGED <<error, columns, early_lookups, df_raw, selected_months,
                   df_filtered, sidebar_warning, empty_warning, outputs>>

\* Lines 61-65: the multiselect returns a subset of its options.
SelectMonths ==
    /\ pc = "sidebar"
    /\ \E selected \in SUBSET MonthOptions(df) : selected_months' = selected
    /\ pc' = "filter"
    /\ UNCHANGED <<error, columns, early_lookups, df_raw, df, df_filtered,
                   sidebar_warning, empty_warning, outputs>>

\* Lines 68-72.
FilterMonths ==
    /\ pc = "filter"
    /\ df_filtered' = MonthFilter(df, selected_months)
    /\ sidebar_warning' = FallbackWarning(selected_months)
    /\ pc' = "gate"
    /\ UNCHANGED <<error, columns, early_lookups, df_raw, df, selected_months,
                   empty_warning, outputs>>

\* Lines 75-77: st.warning, st.stop.
EmptyGate ==
    /\ pc = "gate"
    /\ IsEmpty(df_filtered)
    /\ empty_warning' = TRUE
    /\ pc' = "stopped"
    /\ UNCHANGED <<error, columns, early_lookups, df_raw, df, selected_months,
                   df_filtered, sidebar_warning, outputs>>

\* Lines 80-95.
KpiSummary ==
    /\ pc = "gate"
    /\ ~IsEmpty(df_filtered)
    /\ kpi' = KpiOf(df_filtered)
    /\ rendered' = rendered \cup {"kpi"}
    /\ pc' = "monthly"
    /\ UNCHANGED <<error, columns, early_lookups, df_raw, df, selected_months,
                   df_filtered, sidebar_warning, empty_warning, monthly_summary,
                   daily_sales, hourly_sales, top_selling_products_qty,
                   top_revenue_products, fig_country>>

\* Lines 102-131.
MonthlyTrend ==
    /\ pc = "monthly"
    /\ monthly_summary' = MonthlySummary(df_filtered)
    /\ rendered' = rendered \cup {"fig_monthly", "fig_order_count"}
    /\ pc' = "weekday"
    /\ UNCHANGED <<error, columns, early_lookups, df_raw, df, selected_months,
                   df_filtered, sidebar_warning, empty_warning, kpi,
                   daily_sales, hourly_sales, top_selling_products_qty,
                   top_revenue_products, fig_country>>

\* Lines 136-163.
WeekdayActivity ==
    /\ pc = "weekday"
    /\ daily_sales' = DailySales(df_filtered)
    /\ hourly_sales' = HourlySales(df_filtered)
    /\ rendered' = rendered \cup {"fig_daily", "fig_heatmap"}
    /\ pc' = "products"
    /\ UNCHANGED <<error, columns, early_lookups, df_raw, df, selected_months,
                   df_filtered, sidebar_warning, empty_warning, kpi,
                   monthly_summary, top_selling_products_qty,
                   top_revenue_products, fig_country>>

\* Lines 168-194.
PopularProducts ==
    /\ pc = "products"
    /\ top_selling_products_qty' = TopSellingProductsQty(df_filtered)
    /\ top_revenue_products' = TopRevenueProducts(df_filtered)
    /\ rendered' = rendered \cup {"fig_top_qty", "fig_top_revenue"}
    /\ pc' = "country"
    /\ UNCHANGED <<error, columns, early_lookups, df_raw, df, selected_months,
                   df_filtered, sidebar_warning, empty_warning, kpi,
                   monthly_summary, daily_sales, hourly_sales, fig_country>>

\* Lines 199-229.
CountryShare ==
    /\ pc = "country"
    /\ fig_country' = FigCountry(df_filtered)
    /\ rendered' = rendered \cup {"fig_country"}
    /\ pc' = "done"
    /\ UNCHANGED <<error, columns, early_lookups, df_raw, df, selected_months,
                   df_filtered, sidebar_warning, empty_warning, kpi,
                   monthly_summary, daily_sales, hourly_sales,
                   top_selling_products_qty, top_revenue_products>>

\* A widget interaction reruns the script from the top with an empty page;
\* load_data is cached (line 12) and returns df_raw as it did.
Rerun ==
    /\ \/ pc = "done"
       \/ pc = "stopped" /\ error = "none"
    /\ pc' = "loaded"
    /\ df' = <<>>
    /\ selected_months' = {}
    /\ df_filtered' = <<>>
    /\ sidebar_warning' = FALSE
    /\ empty_warning' = FALSE
    /\ rendered' = {}
    /\ kpi' = KpiOf(<<>>)
    /\ monthly_summary' = <<>>
    /\ daily_sales' = <<>>
    /\ hourly_sales' = Unstack(<<>>, 0)
    /\ top_selling_products_qty' = <<>>
    /\ top_revenue_products' = <<>>
    /\ fig_country' = NoFigure
    /\ UNCHANGED <<error, columns, early_lookups, df_raw>>

Run ==
    \/ FileNotFound
    \/ ConvertInvoiceDate
    \/ StripColumnNames
    \/ Preprocess
    \/ SelectMonths
    \/ FilterMonths
    \/ EmptyGate
    \/ KpiSummary
    \/ MonthlyTrend
    \/ WeekdayActivity
    \/ PopularProducts
    \/ CountryShare
    \/ Rerun

Next == ReadExcel \/ Run

Spec == Init /\ [][Next]_vars

NextProducts == ReadExcelProducts \/ Run

SpecProducts == Init /\ [][NextProducts]_vars

NextCountries == ReadExcelCountries \/ Run

SpecCountries == Init /\ [][NextCountries]_vars

-----------------------------------------------------------------------------
(* Positions of a run. *)

\* Section 2 has run.
AfterPreprocess ==
    \/ pc \in {"sidebar", "filter", "gate", "monthly", "weekday", "products",
               "country", "done"}
    \/ pc = "stopped" /\ error = "none"

\* Lines 68-72 have run.
AfterFilter ==
    \/ pc \in {"gate", "monthly", "weekday", "products", "country", "done"}
    \/ pc = "stopped" /\ error = "none"

\* The raw columns of a row of df are those of the raw row, CustomerID coerced.
PassedThrough(clean, raw) ==
    /\ ~IsNull(raw.CustomerID)
    /\ clean.CustomerID = AsInt(raw.CustomerID)
    /\ \A f \in Fields \ {"CustomerID"} : clean[f] = raw[f]

-----------------------------------------------------------------------------
C2_HourlyMatrixObservedHours ==
    "fig_heatmap" \in rendered =>
        /\ hourly_sales.index = day_order
        /\ Range(hourly_sales.columns) = {df_filtered[i].Hour : i \in DOMAIN df_filtered}
        /\ \A a, b \in DOMAIN hourly_sales.columns :
               a < b => hourly_sales.columns[a] < hourly_sales.columns[b]
        /\ \A d \in Range(day_order), h \in Range(hourly_sales.columns) :
               LET cell == {i \in DOMAIN df_filtered :
                               df_filtered[i].DayOfWeek = d /\ df_filtered[i].Hour = h}
               IN  /\ cell = {} => hourly_sales.values[d][h] = 0
                   /\ cell # {} => hourly_sales.values[d][h] > 0

\* Two hours on two weekdays: the matrix has cells of no row.
C2_Witness ==
    /\ "fig_heatmap" \in rendered
    /\ Len(hourly_sales.columns) = 2
    /\ hourly_sales.values["Sunday"][8] = 0
    /\ hourly_sales.values["Wednesday"][8] > 0

(* C2, as claimed.  The matrix has exactly 7 rows and the 24 columns of    *)
(* the hours 0..23, whichever hours occur.                                 *)
C2_HourlyMatrix7x24 ==
    "fig_heatmap" \in rendered =>
        /\ hourly_sales.index = day_order
        /\ hourly_sales.columns = [h \in 1..24 |-> h - 1]

(* C5.  When the filter leaves no row the run warns and stops with no      *)
(* aggregation computed, and an aggregation is only ever computed over a   *)
(* non-empty filtered set.                                                 *)
C5_EmptyResultHalts ==
    /\ rendered # {} => Len(df_filtered) > 0
    /\ pc \in {"monthly", "weekday", "products", "country", "done"} =>
           Len(df_filtered) > 0 /\ ~empty_warning
    /\ (pc = "stopped" /\ error = "none") =>
           /\ empty_warning
           /\ Len(df_filtered) = 0
           /\ rendered = {}
           /\ kpi = KpiOf(<<>>)
           /\ monthly_summary = <<>>
           /\ daily_sales = <<>>
           /\ hourly_sales = Unstack(<<>>, 0)
           /\ top_selling_products_qty = <<>>
           /\ top_revenue_products = <<>>
           /\ fig_country = NoFigure

\* The sheet had lines, none of them a sale: the run stopped at the gate.
C5_Witness ==
    /\ pc = "stopped"
    /\ empty_warning
    /\ Len(df_raw) = 2
    /\ Len(df_filtered) = 0

(* C6.  With no month selected the filtered rows are the whole cleaned     *)
(* dataset, row for row, and the fallback warning is shown; the warning is *)
(* shown in no other case.                                                 *)
C6_EmptySelectionFallback ==
    AfterFilter =>
        /\ selected_months = {} => (df_filtered = df /\ sidebar_warning)
        /\ sidebar_warning => selected_months = {}

\* Nothing selected although two months were on offer.
C6_Witness ==
    /\ AfterFilter
    /\ selected_months = {}
    /\ Cardinality(MonthOptions(df)) = 2
    /\ df_filtered = df
    /\ sidebar_warning

(* C7, as amended.  With every month of the cleaned data selected the      *)
(* filtered rows are the whole cleaned dataset, row for row, and the       *)
(* caller gets no signal: the only warning of the filter is the fallback   *)
(* warning, shown only when the selection is empty (the cleaned dataset    *)
(* then has no row).                                                       *)
C7_FullSelectionIdentity ==
    (AfterFilter /\ selected_months = MonthOptions(df)) =>
        /\ df_filtered = df
        /\ sidebar_warning => (selected_months = {} /\ Len(df) = 0)

\* Both months of a two month dataset selected.
C7_Witness ==
    /\ AfterFilter
    /\ selected_months = MonthOptions(df)
    /\ Cardinality(selected_months) = 2
    /\ ~sidebar_warning

(* C7, as claimed.  With every month of the cleaned data selected the      *)
(* filtered rows are the whole cleaned dataset and the caller is given the *)
(* signal that nothing was narrowed.                                       *)
C7_FullSelectionSignalled ==
    (AfterFilter /\ selected_months = MonthOptions(df)) =>
        /\ df_filtered = df
        /\ sidebar_warning

(* C9.  For a non-empty filtered set in any arrival order the weekday      *)
(* totals are exactly seven entries, Monday to Sunday in this order; a     *)
(* weekday of no row is there with total 0.                                *)
C9_WeekdayTotalsOrdered ==
    "fig_daily" \in rendered =>
        /\ Len(daily_sales) = 7
        /\ \A k \in 1..7 :
            /\ daily_sales[k].DayOfWeek = day_order[k]
            /\ IF \E i \in DOMAIN df_filtered : df_filtered[i].DayOfWeek = day_order[k]
               THEN daily_sales[k].TotalPrice > 0
               ELSE daily_sales[k].TotalPrice = 0

\* A Sunday line arrived before a Wednesday line; Monday has no line.
C9_Witness ==
    /\ "fig_daily" \in rendered
    /\ Len(df_filtered) = 2
    /\ df_filtered[1].DayOfWeek = "Sunday"
    /\ df_filtered[2].DayOfWeek = "Wednesday"
    /\ daily_sales[1].TotalPrice = 0
    /\ daily_sales[3].TotalPrice > 0

(* C10.  The column labels are stripped before any column is looked up by  *)
(* name: no lookup precedes the strip, and a label with whitespace around  *)
(* it never makes a lookup fail.                                           *)
C10_StripBeforeLookup ==
    /\ early_lookups = {}
    /\ error # "KeyError"

-----------------------------------------------------------------------------
(* Claims about the rankings, checked over the product and the country     *)
(* families.                                                               *)

\* The summed quantity of a product over the filtered rows.
QuantityOf(d) == SumOf(RowsWhere(df_filtered, "Description", d), "Quantity")

\* The summed revenue of a country over the filtered rows.
RevenueOf(c) == SumOf(RowsWhere(df_filtered, "Country", c), "TotalPrice")

\* Rank by summed quantity, descending, then by Description, ascending.
Outranks(d, e) ==
    \/ QuantityOf(d) > QuantityOf(e)
    \/ QuantityOf(d) = QuantityOf(e) /\ LexPos(d) < LexPos(e)

\* rows with the lines i and i + 1 exchanged
SwapLines(rows, i) ==
    [k \in 1..Len(rows) |->
        IF k = i THEN rows[i + 1] ELSE IF k = i + 1 THEN rows[i] ELSE rows[k]]

(* C8.  The ranking by quantity has at most 10 products (all of them when  *)
(* there are fewer), each with its summed quantity, in descending order of *)
(* it; products that tie are ranked, and cut at the 10th place, by         *)
(* Description in ascending order, so the ranking is decided by the        *)
(* multiset of filtered rows: exchanging two neighbouring lines of the     *)
(* input leaves it as it is.                                               *)
C8_TopQuantityByMultiset ==
    "fig_top_qty" \in rendered =>
        LET top   == top_selling_products_qty
            prods == {df_filtered[i].Description : i \in DOMAIN df_filtered}
            shown == {top[k].Description : k \in DOMAIN top}
        IN  /\ Len(top) <= 10
            /\ Len(top) = 10 \/ Len(top) = Cardinality(prods)
            /\ shown \subseteq prods
            /\ \A k \in DOMAIN top : top[k].Quantity = QuantityOf(top[k].Description)
            /\ \A k \in 1..(Len(top) - 1) :
                   /\ top[k].Quantity >= top[k + 1].Quantity
                   /\ Outranks(top[k].Description, top[k + 1].Description)
            /\ \A d \in shown, e \in prods \ shown : Outranks(d, e)
            /\ \A i \in 1..(Len(df_filtered) - 1) :
                   TopSellingProductsQty(SwapLines(df_filtered, i)) = top

\* Eleven products arrived in descending order of Description; the 10th and
\* the product left out tie.
C8_Witness ==
    /\ "fig_top_qty" \in rendered
    /\ Len(top_selling_products_qty) = 10
    /\ Cardinality({df_filtered[i].Description : i \in DOMAIN df_filtered}) = 11
    /\ LexPos(df_filtered[1].Description) > LexPos(df_filtered[2].Description)
    /\ \E i \in DOMAIN df_filtered :
        /\ \A k \in 1..10 : top_selling_products_qty[k].Description # df_filtered[i].Description
        /\ QuantityOf(df_filtered[i].Description) = top_selling_products_qty[10].Quantity

(* C3.  The branch of the country view is chosen by whether the United     *)
(* Kingdom is among the countries of the grouped result, whatever its rank *)
(* and however many countries there are: present, the view is every        *)
(* grouped country but the United Kingdom; absent, the top-N branch is     *)
(* taken.                                                                  *)
C3_BranchByPresence ==
    "fig_country" \in rendered =>
        LET countries == {df_filtered[i].Country : i \in DOMAIN df_filtered}
        IN  IF "United Kingdom" \in countries
            THEN /\ fig_country.branch = "exclude_uk"
                 /\ {fig_country.frame[k].Country : k \in DOMAIN fig_country.frame}
                        = countries \ {"United Kingdom"}
            ELSE fig_country.branch = "top_10"

(* C4.  Without the United Kingdom in the filtered data the country view   *)
(* is the top 10 countries by summed revenue: at most 10 entries, and no   *)
(* country left out has more revenue than a country in it.                 *)
C4_TopTenCountries ==
    LET countries == {df_filtered[i].Country : i \in DOMAIN df_filtered}
        shown     == {fig_country.frame[k].Country : k \in DOMAIN fig_country.frame}
    IN  ("fig_country" \in rendered /\ "United Kingdom" \notin countries) =>
            /\ Len(fig_country.frame) <= 10
            /\ shown \subseteq countries
            /\ \A c \in countries \ shown, e \in shown : RevenueOf(c) <= RevenueOf(e)

=============================================================================
